---- MODULE Spec2Model ----
(***************************************************************************)
(* Model of the asynchronous agent runtime of optimal_implementation.py:   *)
(* five agents (orchestrator, crawler, analysis, implementation, feedback) *)
(* that share one asyncio.Queue, the stage tasks they spawn with           *)
(* asyncio.create_task, and the orchestrator's SystemState machine.        *)
(*                                                                         *)
(* One step of the model is one pass through the while loop of Agent.run   *)
(* (handle a message, put a message back, or idle on the empty queue), one *)
(* agent start-up, one whole stage task, or one request put on the queue   *)
(* from outside.  The event loop is a FIFO of ready coroutines.            *)
(*                                                                         *)
(* Two specifications share the actions:                                   *)
(*  - CoopSpec is the code as written: a pass that dequeued a message      *)
(*    reaches no suspension point (put on the unbounded queue never waits, *)
(*    no handler awaits anything that suspends), so the coroutine goes on  *)
(*    with its next pass; only the pass on the empty queue sleeps.         *)
(*  - Spec takes the end of every pass as a suspension point, which is the *)
(*    scheduling spec.md section 5 describes.  It is the specification in  *)
(*    which the handlers and the stage tasks get to run.                   *)
(***************************************************************************)
EXTENDS Integers, Sequences, FiniteSets, Bags, TLC

\* ---------------------------------------------------------------- bounds
MaxN   == 2      \* largest max_iterations the orchestrator is built with
MaxExt == 1      \* number of start/set_url/stop requests put on the queue
MaxUrl == 2      \* number of set_url requests put on the queue in UrlSpec
MaxSeq == 4      \* message numbers per sender the liveness claim ranges over

\* ------------------------------------------------------------- constants
None == "none"

Agents == {"orchestrator", "crawler", "analysis", "implementation", "feedback"}
StageAgents == Agents \ {"orchestrator"}
MessageTypes == {"request", "response", "notification", "error"}
SystemStates == {"initializing", "crawling", "analyzing", "implementing",
                 "feedback", "complete", "error"}
Urls == {"u1", "u2"}
Requesters == {"feedback"}

\* dict.get(key): None when the key is absent
Get(d, k) == IF k \in DOMAIN d THEN d[k] ELSE None

\* the empty dict
EmptyMap == [k \in {} |-> None]

\* d[k] = v that stores nothing
PutNothing(d, k, v) == d

\* d[k] = v on a dict
Put(d, k, v) == [x \in DOMAIN d \cup {k} |-> IF x = k THEN v ELSE d[x]]

\* str(self.result_file) of an agent
ResultPath(a) == a

\* Message(source_agent, destination_agent, message_type, payload); the
\* message_id is given when the message is put on the queue (Stamp).
Message(src, dst, type, payload) ==
    [source_agent |-> src, destination_agent |-> dst,
     message_type |-> type, payload |-> payload]

Stamp(m, i) ==
    [message_id |-> i, source_agent |-> m.source_agent,
     destination_agent |-> m.destination_agent,
     message_type |-> m.message_type, payload |-> m.payload]

VARIABLES
    config,             \* website_url of config.json, or None
    available,          \* FOREVERVM_AVAILABLE
    queue,              \* MultiAgentSystem.message_queue
    pc,                 \* where each agent.run() is: new, loop, except, done
    running,            \* Agent.running
    status,             \* Agent.status
    orch,               \* the OrchestratorAgent's fields
    crawler_url,        \* CrawlerAgent.target_url
    result_file,        \* result.json of each agent
    ready,              \* the event loop's FIFO of coroutines ready to run
    sent,               \* every message ever put on the queue
    handled,            \* bag of [msg, by]: messages passed to handle_message
    finished,           \* stage tasks that ran, with their outcome
    ext,                \* requests put on the queue from outside so far
    last,               \* the orchestrator's last handle_message call
    parity,             \* parity of the number of passes the run loops made
    status_file,        \* status.json of each agent
    exception,          \* str(e) of the exception each run() caught, or None
    system_running,     \* MultiAgentSystem.running
    wire                \* a Message on its way through to_dict and from_dict

vars == <<config, available, queue, pc, running, status, orch, crawler_url,
          result_file, ready, sent, handled, finished, ext, last, parity,
          status_file, exception, system_running, wire>>

\* an agent's run() coroutine, as an entry of ready: suspended and ready to
\* be resumed (Loop), or still holding the thread after a pass that did not
\* suspend (Running)
Loop(a) == [run |-> a]
Running(a) == [run |-> a, holds |-> TRUE]

\* the stage tasks created by asyncio.create_task that have not run yet
tasks == {ready[i] : i \in DOMAIN ready}
         \ ({Loop(a) : a \in Agents} \cup {Running(a) : a \in Agents})


\* Python truthiness of an optional string
Truthy(x) == x # None /\ x # ""

NoMessage == [none |-> TRUE]

\* no call of the orchestrator's handle_message yet
NoCall == [none |-> TRUE]

\* a result.json or status.json that was never written
NoFile == [missing |-> TRUE]

\* a status.json written with a status that drops the error text
update_status_no_error(st, error) == [status |-> st]

\* Agent.update_status: the status.json it writes for the status st the agent
\* has when it is called; the error is written only if it is truthy
update_status(st, error) ==
    IF Truthy(error) THEN [status |-> st, error |-> error] ELSE [status |-> st]

\* ------------------------------------------------------ OrchestratorAgent
\* The orchestrator's methods work on a context c = [o, cfg, out]: o are the
\* agent's fields, cfg the config file, out the messages it has sent with
\* send_message, in order.

\* OrchestratorAgent.__init__
OrchestratorInit(n) ==
    [system_state      |-> "initializing",
     agents_status     |-> [a \in Agents |-> "idle"],
     agent_results     |-> EmptyMap,
     current_iteration |-> 0,
     max_iterations    |-> n,
     target_url        |-> None]

\* a state assignment that is lost
SetStateLost(c, s) == c

SetState(c, s) == [c EXCEPT !.o.system_state = s]

\* start_iteration that sends the crawl request without counting the iteration
start_iteration_uncounted(c) ==
    LET c1 == [c EXCEPT !.o.agent_results = EmptyMap]
    IN  IF c1.o.current_iteration > c1.o.max_iterations
        THEN SetState(c1, "complete")
        ELSE [SetState(c1, "crawling") EXCEPT
                !.out = Append(@, Message("orchestrator", "crawler", "request",
                                  [action    |-> "crawl",
                                   url       |-> c1.o.target_url,
                                   iteration |-> c1.o.current_iteration])),
                !.o.agents_status["crawler"] = "running"]

\* OrchestratorAgent.start_iteration
\* a start_iteration that does not look at the iteration budget
start_iteration_unbounded(c) ==
    LET c1 == [c EXCEPT !.o.current_iteration = @ + 1,
                        !.o.agent_results = EmptyMap]
    IN  [SetState(c1, "crawling") EXCEPT
            !.out = Append(@, Message("orchestrator", "crawler", "request",
                              [action    |-> "crawl",
                               url       |-> c1.o.target_url,
                               iteration |-> c1.o.current_iteration])),
            !.o.agents_status["crawler"] = "running"]

\* a start_iteration that counts from 1 again when the state is complete
start_iteration_restarting(c) ==
    LET c1 == [c EXCEPT !.o.current_iteration =
                            IF c.o.system_state = "complete" THEN 1 ELSE @ + 1,
                        !.o.agent_results = EmptyMap]
    IN  IF c1.o.current_iteration > c1.o.max_iterations
        THEN SetState(c1, "complete")
        ELSE [SetState(c1, "crawling") EXCEPT
                !.out = Append(@, Message("orchestrator", "crawler", "request",
                                  [action    |-> "crawl",
                                   url       |-> c1.o.target_url,
                                   iteration |-> c1.o.current_iteration])),
                !.o.agents_status["crawler"] = "running"]

start_iteration(c) ==
    LET c1 == [c EXCEPT !.o.current_iteration = @ + 1,
                        !.o.agent_results = EmptyMap]
    IN  IF c1.o.current_iteration > c1.o.max_iterations
        THEN SetState(c1, "complete")
        ELSE [SetState(c1, "crawling") EXCEPT
                !.out = Append(@, Message("orchestrator", "crawler", "request",
                                  [action    |-> "crawl",
                                   url       |-> c1.o.target_url,
                                   iteration |-> c1.o.current_iteration])),
                !.o.agents_status["crawler"] = "running"]

\* check_system_progress without the abort on a failed crawler
check_system_progress_no_abort(c) ==
    LET o == c.o
        has(a) == a \in DOMAIN o.agent_results
    IN  CASE o.system_state = "crawling" ->
                IF has("crawler") THEN SetState(c, "analyzing") ELSE c
          [] o.system_state = "analyzing" ->
                IF has("analysis") THEN SetState(c, "implementing") ELSE c
          [] o.system_state = "implementing" ->
                IF has("implementation") THEN SetState(c, "feedback") ELSE c
          [] o.system_state = "feedback" ->
                IF has("feedback")
                THEN IF o.current_iteration < o.max_iterations
                     THEN start_iteration(c)
                     ELSE SetState(c, "complete")
                ELSE c
          [] OTHER -> c

\* OrchestratorAgent.check_system_progress
check_system_progress(c) ==
    LET o == c.o
        has(a) == a \in DOMAIN o.agent_results
    IN  IF /\ \E a \in Agents : o.agents_status[a] = "error"
           /\ o.agents_status["crawler"] = "error"
        THEN SetState(c, "error")
        ELSE CASE o.system_state = "crawling" ->
                    IF has("crawler") THEN SetState(c, "analyzing") ELSE c
               [] o.system_state = "analyzing" ->
                    IF has("analysis") THEN SetState(c, "implementing") ELSE c
               [] o.system_state = "implementing" ->
                    IF has("implementation") THEN SetState(c, "feedback") ELSE c
               [] o.system_state = "feedback" ->
                    IF has("feedback")
                    THEN IF o.current_iteration < o.max_iterations
                         THEN start_iteration(c)
                         ELSE SetState(c, "complete")
                    ELSE c
               [] OTHER -> c

\* a reply addressed to the message's destination instead of its source
ReplyToDestination(c, m, type, payload) ==
    [c |-> c, ret |-> Message("orchestrator", m.destination_agent, type, payload)]

Reply(c, m, type, payload) ==
    [c |-> c, ret |-> Message("orchestrator", m.source_agent, type, payload)]

\* OrchestratorAgent.handle_message
orchestrator_handle_message(c, m) ==
    LET src    == m.source_agent
        action == Get(m.payload, "action")
        url    == Get(m.payload, "url")
        path   == Get(m.payload, "result_path")
    IN
    CASE m.message_type = "notification" /\ Get(m.payload, "status") = "complete" ->
           LET c1 == [c EXCEPT !.o.agents_status[src] = "idle"]
               c2 == IF Truthy(path)
                     THEN [c1 EXCEPT !.o.agent_results = Put(@, src, path)]
                     ELSE c1
           IN  Reply(check_system_progress(c2), m, "response",
                     [status |-> "acknowledged"])
      [] m.message_type = "error" ->
           LET c1 == [c EXCEPT !.o.agents_status[src] = "error"]
           IN  Reply(check_system_progress(c1), m, "response",
                     [status |-> "error_acknowledged"])
      [] m.message_type = "request" /\ action = "set_url" ->
           IF Truthy(url)
           THEN LET c1 == [c EXCEPT !.o.target_url = url, !.cfg = url]
                    c2 == IF c1.o.system_state \in {"complete", "initializing"}
                          THEN start_iteration(c1)
                          ELSE c1
                IN  Reply(c2, m, "response", [status |-> "url_set", url |-> url])
           ELSE Reply(c, m, "error", [error |-> "No URL provided"])
      [] m.message_type = "request" /\ action = "start" ->
           IF ~Truthy(c.o.target_url)
           THEN Reply(c, m, "error", [error |-> "No target URL set"])
           ELSE LET c1 == start_iteration(c)
                IN  Reply(c1, m, "response",
                          [status |-> "started",
                           iteration |-> c1.o.current_iteration])
      [] m.message_type = "request" /\ action = "stop" ->
           Reply(SetState(c, "complete"), m, "response", [status |-> "stopped"])
      [] OTHER -> [c |-> c, ret |-> NoMessage]

\* ------------------------------------------------------------ stage agents
\* A stage handler returns [spawn, ret, url]: the stage task it creates (or
\* NoMessage), the message it returns, and the crawler's target_url.

NoSpawn(a, m, url, text) ==
    [spawn |-> NoMessage, url |-> url,
     ret |-> Message(a, m.source_agent, "error", [error |-> text])]

\* a crawler that prefers its configured target to the URL of the request
crawler_handle_message_target_first(m, target) ==
    IF m.message_type = "request" /\ Get(m.payload, "action") = "crawl"
    THEN LET url == IF Truthy(target) THEN target ELSE Get(m.payload, "url")
         IN  IF Truthy(url)
             THEN [spawn |-> [agent |-> "crawler", url |-> url],
                   url   |-> url,
                   ret   |-> Message("crawler", m.source_agent, "response",
                                     [status |-> "crawling", url |-> url])]
             ELSE NoSpawn("crawler", m, target, "No URL specified")
    ELSE [spawn |-> NoMessage, url |-> target, ret |-> NoMessage]

\* CrawlerAgent.handle_message
crawler_handle_message(m, target) ==
    IF m.message_type = "request" /\ Get(m.payload, "action") = "crawl"
    THEN LET url == IF Truthy(Get(m.payload, "url"))
                    THEN Get(m.payload, "url") ELSE target
         IN  IF Truthy(url)
             THEN [spawn |-> [agent |-> "crawler", url |-> url],
                   url   |-> url,
                   ret   |-> Message("crawler", m.source_agent, "response",
                                     [status |-> "crawling", url |-> url])]
             ELSE NoSpawn("crawler", m, target, "No URL specified")
    ELSE [spawn |-> NoMessage, url |-> target, ret |-> NoMessage]

\* AnalysisAgent.handle_message
analysis_handle_message(m) ==
    IF m.message_type = "request" /\ Get(m.payload, "action") = "analyze"
    THEN LET crawl_result_path == Get(m.payload, "crawl_result_path")
         IN  IF Truthy(crawl_result_path)
             THEN [spawn |-> [agent |-> "analysis",
                              crawl_result_path |-> crawl_result_path],
                   url   |-> None,
                   ret   |-> Message("analysis", m.source_agent, "response",
                                     [status |-> "analyzing",
                                      crawl_result_path |-> crawl_result_path])]
             ELSE NoSpawn("analysis", m, None, "No crawl result path specified")
    ELSE [spawn |-> NoMessage, url |-> None, ret |-> NoMessage]

\* ImplementationAgent.handle_message
implementation_handle_message(m) ==
    IF m.message_type = "request" /\ Get(m.payload, "action") = "implement"
    THEN LET analysis_result_path == Get(m.payload, "analysis_result_path")
             crawl_result_path    == Get(m.payload, "crawl_result_path")
         IN  IF Truthy(analysis_result_path) /\ Truthy(crawl_result_path)
             THEN [spawn |-> [agent |-> "implementation",
                              analysis_result_path |-> analysis_result_path,
                              crawl_result_path |-> crawl_result_path],
                   url   |-> None,
                   ret   |-> Message("implementation", m.source_agent, "response",
                                     [status |-> "implementing",
                                      analysis_result_path |-> analysis_result_path,
                                      crawl_result_path |-> crawl_result_path])]
             ELSE NoSpawn("implementation", m, None, "Missing result paths")
    ELSE [spawn |-> NoMessage, url |-> None, ret |-> NoMessage]

\* a feedback agent that acknowledges the responses it receives
feedback_handle_message_acking(m) ==
    IF m.message_type = "request" /\ Get(m.payload, "action") = "evaluate"
    THEN LET implementation_result_path ==
                 Get(m.payload, "implementation_result_path")
             analysis_result_path == Get(m.payload, "analysis_result_path")
             crawl_result_path    == Get(m.payload, "crawl_result_path")
         IN  IF /\ Truthy(implementation_result_path)
                /\ Truthy(analysis_result_path)
                /\ Truthy(crawl_result_path)
             THEN [spawn |-> [agent |-> "feedback",
                              implementation_result_path |-> implementation_result_path,
                              analysis_result_path |-> analysis_result_path,
                              crawl_result_path |-> crawl_result_path],
                   url   |-> None,
                   ret   |-> Message("feedback", m.source_agent, "response",
                                     [status |-> "evaluating",
                                      implementation_result_path |->
                                          implementation_result_path])]
             ELSE NoSpawn("feedback", m, None, "Missing result paths")
    ELSE IF m.message_type = "response"
         THEN [spawn |-> NoMessage, url |-> None,
               ret |-> Message("feedback", m.source_agent, "response",
                               [status |-> "acknowledged"])]
         ELSE [spawn |-> NoMessage, url |-> None, ret |-> NoMessage]

\* FeedbackAgent.handle_message
feedback_handle_message(m) ==
    IF m.message_type = "request" /\ Get(m.payload, "action") = "evaluate"
    THEN LET implementation_result_path ==
                 Get(m.payload, "implementation_result_path")
             analysis_result_path == Get(m.payload, "analysis_result_path")
             crawl_result_path    == Get(m.payload, "crawl_result_path")
         IN  IF /\ Truthy(implementation_result_path)
                /\ Truthy(analysis_result_path)
                /\ Truthy(crawl_result_path)
             THEN [spawn |-> [agent |-> "feedback",
                              implementation_result_path |-> implementation_result_path,
                              analysis_result_path |-> analysis_result_path,
                              crawl_result_path |-> crawl_result_path],
                   url   |-> None,
                   ret   |-> Message("feedback", m.source_agent, "response",
                                     [status |-> "evaluating",
                                      implementation_result_path |->
                                          implementation_result_path])]
             ELSE NoSpawn("feedback", m, None, "Missing result paths")
    ELSE [spawn |-> NoMessage, url |-> None, ret |-> NoMessage]


\* ------------------------------------------------------- stage computations
RECURSIVE SumOf(_, _)
\* sum(x.get(key, 0) for x in seq)
SumOf(seq, key) ==
    IF seq = <<>> THEN 0
    ELSE (IF key \in DOMAIN Head(seq) THEN Head(seq)[key] ELSE 0)
         + SumOf(Tail(seq), key)

\* sum(1 for x in seq if x.get(key, False))
CountOf(seq, key) ==
    Cardinality({i \in DOMAIN seq : key \in DOMAIN seq[i] /\ seq[i][key] = TRUE})

\* (count / total) * 100 if total else 0, as its integer part
Percentage(count, total) == IF total > 0 THEN (count * 100) \div total ELSE 0

\* the body of AnalysisAgent.analyze_crawl_result up to save_result:
\* [raised, analysis]
Analyze(crawl_result) ==
    LET pages  == crawl_result.pages
        assets == crawl_result.assets
        n      == Len(pages)
        hc     == CountOf(pages, "has_header")
        fc     == CountOf(pages, "has_footer")
        nc     == CountOf(pages, "has_nav")
        page_structure ==
            [header_percentage |-> Percentage(hc, n),
             footer_percentage |-> Percentage(fc, n),
             nav_percentage    |-> Percentage(nc, n)]
        \* the averages are kept as their integer part; the comparison with 5
        \* below is exact
        asset_analysis ==
            IF Len(assets) > 0
            THEN [total_css_files |-> SumOf(assets, "css_count"),
                  total_js_files  |-> SumOf(assets, "js_count"),
                  total_images    |-> SumOf(assets, "image_count"),
                  avg_js_per_page |-> SumOf(assets, "js_count") \div Len(assets)]
            ELSE EmptyMap
        \* header_percentage > 90, footer_percentage > 90 (exact comparison)
        r1 == IF n > 0 /\ hc * 100 > 90 * n
              THEN <<"Implement consistent header across all pages">> ELSE <<>>
        r2 == IF n > 0 /\ fc * 100 > 90 * n
              THEN <<"Implement consistent footer across all pages">> ELSE <<>>
        \* "asset_analysis" in analysis is true of every analysis: the key
        \* is set at construction; the lookup of avg_js_per_page raises
        \* KeyError on the empty dict
        key_error == "avg_js_per_page" \notin DOMAIN asset_analysis
        r3 == IF ~key_error /\ SumOf(assets, "js_count") > 5 * Len(assets)
              THEN <<"Consider bundling JavaScript files to improve loading performance">>
              ELSE <<>>
    IN  [raised   |-> key_error,
         analysis |-> [base_url        |-> crawl_result.base_url,
                       pages_analyzed  |-> n,
                       page_structure  |-> page_structure,
                       asset_analysis  |-> asset_analysis,
                       recommendations |-> r1 \o r2 \o r3]]

\* implementation_result of ImplementationAgent.implement_website; tested is
\* the success flag of executor.test_implementation
Implement(crawl_result, tested) ==
    [files |-> << [path |-> "implementation.py", type |-> "python"],
                  [path |-> "template.html", type |-> "html"],
                  [path |-> "styles.css", type |-> "css"] >>,
     base_url          |-> crawl_result.base_url,
     pages_implemented |-> Len(crawl_result.pages),
     test_results      |-> [tests_passed |-> IF available /\ tested
                                             THEN "True" ELSE "None"]]

\* feedback of FeedbackAgent.evaluate_implementation
Evaluate(implementation, analysis) ==
    LET s1 == IF Len(implementation.files) >= 3 THEN 1 ELSE 0
        tp == implementation.test_results.tests_passed
        s2 == IF tp = "True" THEN 1 ELSE 0
        \* recommendations_followed counts every recommendation
        s3 == 1
        score == s1 + s2 + s3
    IN  [score      |-> score,
         strengths  |-> s1 + s2 + s3,
         weaknesses |-> (1 - s1) + (IF tp = "False" THEN 1 ELSE 0),
         overall_assessment |->
            IF score >= 2
            THEN "Good implementation that meets most requirements"
            ELSE IF score >= 1
                 THEN "Acceptable implementation with room for improvement"
                 ELSE "Implementation needs significant improvement"]

\* what the sandbox can return for a crawl of url
Page(h, f, n) == [has_header |-> h, has_footer |-> f, has_nav |-> n]
Asset(js) == [css_count |-> 1, js_count |-> js, image_count |-> 0]
CrawlResults(url) ==
    { [base_url |-> url,
       pages  |-> <<Page(TRUE, TRUE, FALSE), Page(TRUE, FALSE, FALSE),
                    Page(TRUE, TRUE, TRUE)>>,
       assets |-> <<>>],
      [base_url |-> url,
       pages  |-> <<Page(TRUE, TRUE, FALSE), Page(TRUE, TRUE, FALSE),
                    Page(TRUE, TRUE, TRUE)>>,
       assets |-> <<Asset(6), Asset(6), Asset(7)>>] }


\* ------------------------------------------------------------------ queue
SeqRange(q) == {q[i] : i \in DOMAIN q}

\* message_queue.put of msgs, in order, after `base`
\* message_id: unique per constructed Message; here the sender and the number
\* of the message among those the sender has put on the queue
SentBy(src) == Cardinality({m \in sent : m.source_agent = src})

NumberIn(msgs, i) ==
    Cardinality({j \in 1..i : msgs[j].source_agent = msgs[i].source_agent})

Stamped(msgs) ==
    [i \in DOMAIN msgs |->
        Stamp(msgs[i], <<msgs[i].source_agent,
                         SentBy(msgs[i].source_agent) + NumberIn(msgs, i)>>)]

Put_(base, msgs) ==
    /\ queue' = base \o Stamped(msgs)
    /\ sent'  = sent \cup SeqRange(Stamped(msgs))

\* MultiAgentSystem.start creates the five run() tasks in this order; the
\* event loop resumes ready coroutines first in, first out.
CreationOrder ==
    <<"orchestrator", "crawler", "analysis", "implementation", "feedback">>

\* ------------------------------------------------------------------- Init
SystemInit ==
    /\ config \in {None, "u1"}
    /\ available \in BOOLEAN
    /\ queue = <<>>
    /\ pc = [a \in Agents |-> "new"]
    /\ running = [a \in Agents |-> FALSE]
    /\ status = [a \in Agents |-> "idle"]
    /\ \E n \in 1..MaxN : orch = OrchestratorInit(n)
    /\ crawler_url = None
    /\ result_file = [a \in Agents |-> NoFile]
    /\ ready = [i \in DOMAIN CreationOrder |-> Loop(CreationOrder[i])]
    /\ sent = {}
    /\ handled = EmptyBag
    /\ finished = {}
    /\ ext = 0
    /\ last = NoCall
    /\ parity = 0
    /\ status_file = [a \in Agents |-> NoFile]
    /\ exception = [a \in Agents |-> None]
    /\ system_running = TRUE

\* no Message is being serialised
NoWire == [stage |-> "none"]

Init == SystemInit /\ wire = NoWire

\* ------------------------------------------------------------ Agent.start
\* The first part of Agent.run: await self.start(), with the overrides of
\* OrchestratorAgent.start and CrawlerAgent.start.
Start(a) ==
    /\ ready # <<>>
    /\ Head(ready) = Loop(a)
    /\ pc[a] = "new"
    /\ pc' = [pc EXCEPT ![a] = "loop"]
    /\ running' = [running EXCEPT ![a] = TRUE]
    /\ status' = [status EXCEPT ![a] = "running"]
    /\ status_file' = [status_file EXCEPT ![a] = update_status("running", None)]
    /\ IF a = "orchestrator"
       THEN LET c0 == [o   |-> [orch EXCEPT !.target_url = config,
                                            !.system_state = "initializing"],
                       cfg |-> config, out |-> <<>>]
                c1 == IF Truthy(c0.o.target_url) THEN start_iteration(c0) ELSE c0
            IN  /\ orch' = c1.o
                /\ Put_(queue, c1.out)
                /\ UNCHANGED crawler_url
       ELSE IF a = "crawler"
       THEN /\ crawler_url' = config
            /\ IF ~Truthy(config)
               THEN Put_(queue, <<Message("crawler", "orchestrator", "error",
                                   [error |-> "No target URL specified"])>>)
               ELSE UNCHANGED <<queue, sent>>
            /\ UNCHANGED orch
       ELSE UNCHANGED <<queue, sent, orch, crawler_url>>
    /\ ready' = <<Running(a)>> \o Tail(ready)
    /\ UNCHANGED <<exception, wire, system_running, config, available, result_file, handled, finished, ext, last,
                   parity>>

\* -------------------------------------------------------------- Agent.run
\* a loop that does not look at the running flag
InLoopUnchecked(a) ==
    /\ ready # <<>>
    /\ Head(ready) \in {Loop(a), Running(a)}
    /\ pc[a] = "loop"

\* the loop check of run(): while self.running
InLoop(a) ==
    /\ ready # <<>>
    /\ Head(ready) \in {Loop(a), Running(a)}
    /\ pc[a] = "loop"
    /\ running[a]

\* The end of a pass.  If the pass suspended, the coroutine goes to the back
\* of the ready FIFO, behind the tasks it created; if not, it keeps the
\* thread and the created tasks wait in the FIFO.
EndPass(a, created, suspends) ==
    /\ ready' = IF suspends
                THEN Tail(ready) \o created \o <<Loop(a)>>
                ELSE <<Running(a)>> \o Tail(ready) \o created
    /\ parity' = 1 - parity

StageHandle(a, m) ==
    CASE a = "crawler"        -> crawler_handle_message(m, crawler_url)
      [] a = "analysis"       -> analysis_handle_message(m)
      [] a = "implementation" -> implementation_handle_message(m)
      [] a = "feedback"       -> feedback_handle_message(m)

Returned(ret) == IF ret = NoMessage THEN <<>> ELSE <<ret>>

\* a handler that creates its stage task twice for one request
CreatedTwice(spawn, m) ==
    IF spawn = NoMessage THEN <<>>
    ELSE <<spawn @@ [req |-> m.message_id],
           spawn @@ [req |-> m.message_id, again |-> TRUE]>>

\* asyncio.create_task in a stage handler: the tasks the handling of m
\* creates, each tagged with the request it serves
Created(spawn, m) ==
    IF spawn = NoMessage THEN <<>> ELSE <<spawn @@ [req |-> m.message_id]>>

\* One pass of the loop that dequeues a message addressed to the agent:
\* handle_message, then put the response if there is one.
HandlePass(a, suspends) ==
    /\ InLoop(a)
    /\ queue # <<>>
    /\ Head(queue).destination_agent = a
    /\ LET m == Head(queue) IN
       /\ handled' = handled (+) SetToBag({[msg |-> m, by |-> a]})
       /\ IF a = "orchestrator"
          THEN LET r == orchestrator_handle_message(
                            [o |-> orch, cfg |-> config, out |-> <<>>], m)
               IN  /\ orch' = r.c.o
                   /\ config' = r.c.cfg
                   /\ last' = [msg |-> m, before |-> orch,
                               out |-> r.c.out, ret |-> r.ret]
                   /\ Put_(Tail(queue), r.c.out \o Returned(r.ret))
                   /\ EndPass(a, <<>>, suspends)
                   /\ UNCHANGED crawler_url
          ELSE LET r == StageHandle(a, m)
               IN  /\ EndPass(a, Created(r.spawn, m), suspends)
                   /\ crawler_url' = IF a = "crawler" THEN r.url ELSE crawler_url
                   /\ Put_(Tail(queue), Returned(r.ret))
                   /\ UNCHANGED <<orch, config, last>>
    /\ UNCHANGED <<status_file, exception, wire, system_running, available, pc, running, status, result_file, finished, ext>>

\* a put back that builds the message anew, with a message_id of its own
PutBackRebuilt(m) == Stamp(m, <<m.source_agent, 0>>)

\* the message an agent puts back when it is addressed to another agent
PutBack(m) == m

\* One pass of the loop that dequeues a message addressed to another agent.
RequeuePass(a, suspends) ==
    /\ InLoop(a)
    /\ queue # <<>>
    /\ Head(queue).destination_agent # a
    /\ queue' = Append(Tail(queue), PutBack(Head(queue)))
    /\ EndPass(a, <<>>, suspends)
    /\ UNCHANGED <<status_file, exception, wire, system_running, config, available, pc, running, status, orch, crawler_url,
                   result_file, sent, handled, finished, ext, last>>

\* the passes as the code has them: the coroutine keeps the thread
HandleOn(a) == HandlePass(a, FALSE)
RequeueOn(a) == RequeuePass(a, FALSE)

\* the passes with a suspension point at their end
Handle(a) == HandlePass(a, TRUE)
Requeue(a) == RequeuePass(a, TRUE)

\* One pass of the loop on an empty queue: do_work and sleep.
Idle(a) ==
    /\ InLoop(a)
    /\ queue = <<>>
    /\ EndPass(a, <<>>, TRUE)
    /\ UNCHANGED <<status_file, exception, wire, system_running, config, available, queue, pc, running, status, orch,
                   crawler_url, result_file, sent, handled, finished, ext, last>>

\* what str(e) may be for an exception that reaches the except of run()
ExceptionTexts == {"", "handler failed"}

\* A pass of the loop in which handle_message (a message for the agent is at
\* the head of the queue) or do_work (the queue is empty) raises: the except
\* branch of run().  The message was taken off the queue and is lost; what
\* the handler did before it raised is not modelled.  Nothing suspends
\* between the raise and the end of run(): the coroutine keeps the thread.
RunExcept(a) ==
    /\ InLoop(a)
    /\ \A b \in Agents : pc[b] \in {"new", "loop"}
    /\ \/ /\ queue # <<>>
          /\ Head(queue).destination_agent = a
          /\ queue' = Tail(queue)
          /\ handled' = handled (+) SetToBag({[msg |-> Head(queue), by |-> a]})
       \/ /\ queue = <<>>
          /\ UNCHANGED <<queue, handled>>
    /\ \E text \in ExceptionTexts :
          /\ exception' = [exception EXCEPT ![a] = text]
          /\ status_file' = [status_file EXCEPT ![a] = update_status("error", text)]
    /\ status' = [status EXCEPT ![a] = "error"]
    /\ pc' = [pc EXCEPT ![a] = "except"]
    /\ ready' = <<Running(a)>> \o Tail(ready)
    /\ UNCHANGED <<wire, system_running, config, available, running, orch, crawler_url,
                   result_file, sent, finished, ext, last, parity>>

\* a run() that returns from its except branch without calling stop()
RunReturns(a) ==
    /\ ready # <<>>
    /\ Head(ready) = Running(a)
    /\ pc[a] = "except"
    /\ pc' = [pc EXCEPT ![a] = "done"]
    /\ ready' = Tail(ready)
    /\ UNCHANGED <<exception, wire, system_running, config, available, queue,
                   orch, crawler_url, result_file, sent, handled, finished,
                   ext, last, parity, running, status, status_file>>

\* The finally branch of run(): await self.stop(), and run() returns.
RunFinally(a) ==
    /\ ready # <<>>
    /\ Head(ready) = Running(a)
    /\ pc[a] = "except"
    /\ running' = [running EXCEPT ![a] = FALSE]
    /\ status' = [status EXCEPT ![a] = "idle"]
    /\ status_file' = [status_file EXCEPT ![a] = update_status("idle", None)]
    /\ pc' = [pc EXCEPT ![a] = "done"]
    /\ ready' = Tail(ready)
    /\ UNCHANGED <<exception, wire, system_running, config, available, queue, orch, crawler_url,
                   result_file, sent, handled, finished, ext, last, parity>>

\* The loop check of run() finds running false: the loop ends, the finally
\* branch calls stop(), and run() returns.
LoopExit(a) ==
    /\ ready # <<>>
    /\ Head(ready) \in {Loop(a), Running(a)}
    /\ pc[a] = "loop"
    /\ ~running[a]
    /\ status' = [status EXCEPT ![a] = "idle"]
    /\ status_file' = [status_file EXCEPT ![a] = update_status("idle", None)]
    /\ pc' = [pc EXCEPT ![a] = "done"]
    /\ ready' = Tail(ready)
    /\ UNCHANGED <<exception, wire, system_running, config, available, queue,
                   running, orch, crawler_url, result_file, sent, handled,
                   finished, ext, last, parity>>

\* MultiAgentSystem.stop, the task the signal handler creates: Agent.stop of
\* every agent, with no suspension point.  It runs once the run() tasks have
\* started, when the orchestrator's run() is the next coroutine to resume.
SystemStop ==
    /\ system_running
    /\ \A a \in Agents : pc[a] # "new"
    /\ ready # <<>>
    /\ Head(ready) = Loop("orchestrator")
    /\ system_running' = FALSE
    /\ running' = [a \in Agents |-> FALSE]
    /\ status' = [a \in Agents |-> "idle"]
    /\ status_file' = [a \in Agents |-> update_status("idle", None)]
    /\ UNCHANGED <<exception, wire, config, available, queue, pc, orch,
                   crawler_url, result_file, ready, sent, handled, finished,
                   ext, last, parity>>

\* MultiAgentSystem.start returns when every run() has returned (gather)
start_returned == \A a \in Agents : pc[a] = "done"

\* ------------------------------------------------------------ stage tasks
\* A stage task has no suspension point of its own (the sandbox calls are
\* synchronous and put never waits on the unbounded queue): it runs as one
\* step.  The outcome of the sandbox and of the file system is chosen freely.

\* an error reported with the message type of a notification
ErrorAsNotification(a, text) ==
    Message(a, "orchestrator", "notification", [error |-> text])

ErrorTo(a, text) == Message(a, "orchestrator", "error", [error |-> text])

\* a completion reported with the message type of a request
CompleteAsRequest(a, payload) ==
    Message(a, "orchestrator", "request",
            [status |-> "complete", result_path |-> ResultPath(a)] @@ payload)

Complete(a, payload) ==
    Message(a, "orchestrator", "notification",
            [status |-> "complete", result_path |-> ResultPath(a)] @@ payload)

\* an except branch that reports the failure and the completion of the task
RaiseAndComplete(a, t, text) ==
    /\ Put_(queue, <<ErrorTo(a, text), Complete(a, [failed |-> TRUE])>>)
    /\ status' = [status EXCEPT ![a] = "error"]
    /\ status_file' = [status_file EXCEPT ![a] = update_status("error", text)]
    /\ finished' = finished \cup {[task |-> t, outcome |-> "raise",
                                    error |-> text]}
    /\ UNCHANGED result_file

\* the except branch of a stage task: error message, status = "error"
Raise(a, t, text) ==
    /\ Put_(queue, <<ErrorTo(a, text)>>)
    /\ status' = [status EXCEPT ![a] = "error"]
    /\ status_file' = [status_file EXCEPT ![a] = update_status("error", text)]
    /\ finished' = finished \cup {[task |-> t, outcome |-> "raise",
                                    error |-> text]}
    /\ UNCHANGED result_file

\* a success path that sends its messages last one first
OnSuccessReversed(a, t, result, msgs) ==
    /\ result_file' = [result_file EXCEPT ![a] = result]
    /\ Put_(queue, [i \in DOMAIN msgs |-> msgs[Len(msgs) + 1 - i]])
    /\ finished' = finished \cup {[task |-> t, outcome |-> "complete"]}
    /\ UNCHANGED <<status, status_file>>

\* the messages a stage sends when its task succeeds, in order
OnSuccess(a, t, result, msgs) ==
    /\ result_file' = [result_file EXCEPT ![a] = result]
    /\ Put_(queue, msgs)
    /\ finished' = finished \cup {[task |-> t, outcome |-> "complete"]}
    /\ UNCHANGED <<status, status_file>>

\* CrawlerAgent.crawl_website
CrawlTask(t) ==
    /\ Head(ready) = t /\ t.agent = "crawler"
    /\ ready' = Tail(ready)
    /\ \/ /\ ~available
          /\ Put_(queue, <<ErrorTo("crawler", "ForeverVM required for secure crawling")>>)
          /\ finished' = finished \cup {[task |-> t, outcome |-> "unavailable"]}
          /\ UNCHANGED <<status, status_file, result_file>>
       \/ /\ available
          /\ Put_(queue, <<ErrorTo("crawler", "Crawling failed")>>)
          /\ finished' = finished \cup {[task |-> t, outcome |-> "unsuccessful"]}
          /\ UNCHANGED <<status, status_file, result_file>>
       \/ /\ available
          /\ Raise("crawler", t, "Error crawling website")
       \/ /\ available
          /\ \E crawl_result \in CrawlResults(t.url) :
                OnSuccess("crawler", t, crawl_result,
                    << Complete("crawler",
                                [pages_crawled |-> Len(crawl_result.pages)]),
                       Message("crawler", "analysis", "request",
                               [action |-> "analyze",
                                crawl_result_path |-> ResultPath("crawler")]) >>)
    /\ UNCHANGED <<exception, wire, system_running, config, available, pc, running, orch, crawler_url, handled, ext,
                   last, parity>>

\* AnalysisAgent.analyze_crawl_result
AnalysisTask(t) ==
    /\ Head(ready) = t /\ t.agent = "analysis"
    /\ ready' = Tail(ready)
    /\ LET crawl_result == result_file[t.crawl_result_path]
           r    == Analyze(crawl_result)
           done == t @@ [input |-> crawl_result]
       IN  \/ Raise("analysis", done, "Error analyzing crawl result")
           \/ /\ crawl_result # NoFile
              /\ IF r.raised
                 THEN Raise("analysis", done,
                            "Error analyzing crawl result: 'avg_js_per_page'")
                 ELSE OnSuccess("analysis", done, r.analysis,
                        << Complete("analysis",
                                    [pages_analyzed |-> Len(crawl_result.pages)]),
                           Message("analysis", "implementation", "request",
                                   [action |-> "implement",
                                    analysis_result_path |-> ResultPath("analysis"),
                                    crawl_result_path |-> t.crawl_result_path]) >>)
    /\ UNCHANGED <<exception, wire, system_running, config, available, pc, running, orch, crawler_url, handled, ext,
                   last, parity>>

\* ImplementationAgent.implement_website
ImplementationTask(t) ==
    /\ Head(ready) = t /\ t.agent = "implementation"
    /\ ready' = Tail(ready)
    /\ LET analysis     == result_file[t.analysis_result_path]
           crawl_result == result_file[t.crawl_result_path]
       IN  \/ Raise("implementation", t, "Error implementing website")
           \/ /\ analysis # NoFile /\ crawl_result # NoFile
              /\ \E tested \in (IF available THEN BOOLEAN ELSE {FALSE}) :
                   LET result == Implement(crawl_result, tested)
                   IN  OnSuccess("implementation", t @@ [tested |-> tested], result,
                         << Complete("implementation",
                                     [files_generated |-> Len(result.files)]),
                            Message("implementation", "feedback", "request",
                                    [action |-> "evaluate",
                                     implementation_result_path |->
                                         ResultPath("implementation"),
                                     analysis_result_path |-> t.analysis_result_path,
                                     crawl_result_path |-> t.crawl_result_path]) >>)
    /\ UNCHANGED <<exception, wire, system_running, config, available, pc, running, orch, crawler_url, handled, ext,
                   last, parity>>

\* FeedbackAgent.evaluate_implementation
FeedbackTask(t) ==
    /\ Head(ready) = t /\ t.agent = "feedback"
    /\ ready' = Tail(ready)
    /\ LET implementation == result_file[t.implementation_result_path]
           analysis       == result_file[t.analysis_result_path]
           crawl_result   == result_file[t.crawl_result_path]
       IN  \/ Raise("feedback", t, "Error evaluating implementation")
           \/ /\ implementation # NoFile /\ analysis # NoFile /\ crawl_result # NoFile
              /\ LET feedback == Evaluate(implementation, analysis)
                 IN  OnSuccess("feedback", t, feedback,
                        << Complete("feedback", [score |-> feedback.score]) >>)
    /\ UNCHANGED <<exception, wire, system_running, config, available, pc, running, orch, crawler_url, handled, ext,
                   last, parity>>

\* ------------------------------------------------------ external requests
\* A start, set_url or stop request for the orchestrator, put on the queue
\* by a requester: one more coroutine of the event loop, which runs when the
\* orchestrator's run() is the next coroutine to be resumed.
Requests ==
    {[action |-> "start"], [action |-> "stop"], [action |-> "set_url"]}
    \cup {[action |-> "set_url", url |-> u] : u \in Urls}

Request ==
    /\ ext < MaxExt
    /\ Head(ready) = Loop("orchestrator")
    /\ ext' = ext + 1
    /\ \E src \in Requesters, payload \in Requests :
          Put_(queue, <<Message(src, "orchestrator", "request", payload)>>)
    /\ UNCHANGED <<status_file, exception, wire, system_running, config, available, pc, running, status, orch, crawler_url,
                   result_file, ready, handled, finished, last, parity>>

\* ------------------------------------------------------------------- Next
Next ==
    \/ \E a \in Agents : Start(a)
    \/ \E a \in Agents : Handle(a)
    \/ \E a \in Agents : Requeue(a)
    \/ \E a \in Agents : Idle(a)
    \/ \E t \in tasks : CrawlTask(t)
    \/ \E t \in tasks : AnalysisTask(t)
    \/ \E t \in tasks : ImplementationTask(t)
    \/ \E t \in tasks : FeedbackTask(t)
    \/ Request

Spec == Init /\ [][Next]_vars

\* The code as written.  No stage agent ever handles a message here, so no
\* stage task is ever created: the task actions are not part of CoopNext.
CoopNext ==
    \/ \E a \in Agents : Start(a)
    \/ \E a \in Agents : HandleOn(a)
    \/ \E a \in Agents : RequeueOn(a)
    \/ \E a \in Agents : Idle(a)
    \/ Request

CoopSpec == Init /\ [][CoopNext]_vars /\ WF_vars(CoopNext)

\* Spec under fair scheduling: the event loop resumes whatever is at the head
\* of its FIFO, so every run loop and every task gets its turn.
FairSpec == Spec /\ WF_vars(Next)

\* A set_url request with a URL, put on the queue by a requester.
SetUrlRequest ==
    /\ ext < MaxUrl
    /\ Head(ready) = Loop("orchestrator")
    /\ ext' = ext + 1
    /\ \E src \in Requesters, u \in Urls :
          Put_(queue, <<Message(src, "orchestrator", "request",
                                [action |-> "set_url", url |-> u])>>)
    /\ UNCHANGED <<status_file, exception, wire, system_running, config, available, pc, running, status, orch, crawler_url,
                   result_file, ready, handled, finished, last, parity>>

\* The system under set_url requests only.
UrlNext ==
    \/ \E a \in Agents : Start(a)
    \/ \E a \in Agents : Handle(a)
    \/ \E a \in Agents : Requeue(a)
    \/ \E a \in Agents : Idle(a)
    \/ \E t \in tasks : CrawlTask(t)
    \/ \E t \in tasks : AnalysisTask(t)
    \/ \E t \in tasks : ImplementationTask(t)
    \/ \E t \in tasks : FeedbackTask(t)
    \/ SetUrlRequest

UrlSpec == Init /\ [][UrlNext]_vars

\* A crawl request put on the queue for the crawler by a requester, with a
\* URL, with an empty URL or with none.
CrawlPayloads ==
    {[action |-> "crawl"], [action |-> "crawl", url |-> ""]}
    \cup {[action |-> "crawl", url |-> u] : u \in Urls}

CrawlRequestIn ==
    /\ ext < MaxExt
    /\ Head(ready) = Loop("orchestrator")
    /\ ext' = ext + 1
    /\ \E src \in Requesters, payload \in CrawlPayloads :
          Put_(queue, <<Message(src, "crawler", "request", payload)>>)
    /\ UNCHANGED <<status_file, exception, wire, system_running, config, available, pc,
                   running, status, orch, crawler_url, result_file, ready,
                   handled, finished, last, parity>>

\* The system under external crawl requests only.
CrawlNext ==
    \/ \E a \in Agents : Start(a)
    \/ \E a \in Agents : Handle(a)
    \/ \E a \in Agents : Requeue(a)
    \/ \E a \in Agents : Idle(a)
    \/ \E t \in tasks : CrawlTask(t)
    \/ \E t \in tasks : AnalysisTask(t)
    \/ \E t \in tasks : ImplementationTask(t)
    \/ \E t \in tasks : FeedbackTask(t)
    \/ CrawlRequestIn

CrawlSpec == Init /\ [][CrawlNext]_vars

\* The system without external requests, stopped by a signal at any time.
StopNext ==
    \/ \E a \in Agents : Start(a)
    \/ \E a \in Agents : Handle(a)
    \/ \E a \in Agents : Requeue(a)
    \/ \E a \in Agents : Idle(a)
    \/ \E t \in tasks : CrawlTask(t)
    \/ \E t \in tasks : AnalysisTask(t)
    \/ \E t \in tasks : ImplementationTask(t)
    \/ \E t \in tasks : FeedbackTask(t)
    \/ SystemStop
    \/ \E a \in Agents : LoopExit(a)

\* the event loop resumes whatever is at the head of its FIFO
StopSpec == Init /\ [][StopNext]_vars /\ WF_vars(StopNext)

\* The system without external requests, with both ways out of run(): the
\* stop by a signal, and an exception in the loop of one agent.
ExitNext ==
    \/ \E a \in Agents : Start(a)
    \/ \E a \in Agents : Handle(a)
    \/ \E a \in Agents : Requeue(a)
    \/ \E a \in Agents : Idle(a)
    \/ \E t \in tasks : CrawlTask(t)
    \/ \E t \in tasks : AnalysisTask(t)
    \/ \E t \in tasks : ImplementationTask(t)
    \/ \E t \in tasks : FeedbackTask(t)
    \/ SystemStop
    \/ \E a \in Agents : LoopExit(a)
    \/ \E a \in Agents : RunExcept(a)
    \/ \E a \in Agents : RunFinally(a)

ExitSpec == Init /\ [][ExitNext]_vars

\* The system without external requests, in which handle_message or do_work
\* of one agent may raise.
FaultNext ==
    \/ \E a \in Agents : Start(a)
    \/ \E a \in Agents : Handle(a)
    \/ \E a \in Agents : Requeue(a)
    \/ \E a \in Agents : Idle(a)
    \/ \E t \in tasks : CrawlTask(t)
    \/ \E t \in tasks : AnalysisTask(t)
    \/ \E t \in tasks : ImplementationTask(t)
    \/ \E t \in tasks : FeedbackTask(t)
    \/ \E a \in Agents : RunExcept(a)
    \/ \E a \in Agents : RunFinally(a)

FaultSpec == Init /\ [][FaultNext]_vars

\* ---------------------------------------------------- Message.to_dict etc.
\* The Message class with all its fields.  An enum member is a record of its
\* class and its value; a dict holds the value only.
AgentType(v) == [enum |-> "AgentType", value |-> v]
MessageType(v) == [enum |-> "MessageType", value |-> v]

\* metadata = None
NoMetadata == [none |-> TRUE]

\* f"{int(time.time())}-{id(self)}" and datetime.utcnow().isoformat() of the
\* n-th Message object constructed
GeneratedId(n) == IF n = 1 THEN "id-of-object-1" ELSE "id-of-object-2"
UtcNow(n) == IF n = 1 THEN "time-of-object-1" ELSE "time-of-object-2"

\* Message.__init__ of the n-th object, from the arguments a
Message_init(a, n) ==
    [message_id        |-> IF Truthy(a.message_id) THEN a.message_id
                           ELSE GeneratedId(n),
     source_agent      |-> a.source_agent,
     destination_agent |-> a.destination_agent,
     message_type      |-> a.message_type,
     timestamp         |-> IF Truthy(a.timestamp) THEN a.timestamp ELSE UtcNow(n),
     priority          |-> a.priority,
     payload           |-> a.payload,
     metadata          |-> IF a.metadata = NoMetadata \/ a.metadata = EmptyMap
                           THEN EmptyMap ELSE a.metadata]

\* Message.to_dict
to_dict(m) ==
    [message_id        |-> m.message_id,
     source_agent      |-> m.source_agent.value,
     destination_agent |-> m.destination_agent.value,
     message_type      |-> m.message_type.value,
     timestamp         |-> m.timestamp,
     priority          |-> m.priority,
     payload           |-> m.payload,
     metadata          |-> m.metadata]

\* a from_dict that leaves the message_id to the constructor
from_dict_new_id(data, n) ==
    Message_init([source_agent      |-> AgentType(data.source_agent),
                  destination_agent |-> AgentType(data.destination_agent),
                  message_type      |-> MessageType(data.message_type),
                  payload           |-> data.payload,
                  message_id        |-> None,
                  timestamp         |-> data.timestamp,
                  priority          |-> data.priority,
                  metadata          |-> data.metadata], n)

\* Message.from_dict, constructing the n-th object
from_dict(data, n) ==
    Message_init([source_agent      |-> AgentType(data.source_agent),
                  destination_agent |-> AgentType(data.destination_agent),
                  message_type      |-> MessageType(data.message_type),
                  payload           |-> data.payload,
                  message_id        |-> data.message_id,
                  timestamp         |-> data.timestamp,
                  priority          |-> data.priority,
                  metadata          |-> data.metadata], n)

\* the arguments a Message is constructed with
MessageArguments ==
    [source_agent      : {AgentType(a) : a \in Agents},
     destination_agent : {AgentType(a) : a \in Agents},
     message_type      : {MessageType(t) : t \in MessageTypes},
     payload           : {EmptyMap, [status |-> "complete"]},
     message_id        : {None, "", "m-7"},
     timestamp         : {None, "2024-01-01T00:00:00"},
     priority          : {0, 5},
     metadata          : {NoMetadata, EmptyMap, [trace |-> "t"]}]

MessageInit ==
    /\ SystemInit
    /\ config = None /\ available /\ orch.max_iterations = 1
    /\ \E a \in MessageArguments : wire = [stage |-> "arguments", a |-> a]

\* serialising a Message touches nothing of the running system
MessageFrame ==
    UNCHANGED <<config, available, queue, pc, running, status, orch,
                crawler_url, result_file, ready, sent, handled, finished,
                ext, last, parity, status_file, exception,
                system_running>>

Construct ==
    /\ wire.stage = "arguments"
    /\ MessageFrame
    /\ wire' = [stage |-> "message", a |-> wire.a, m |-> Message_init(wire.a, 1)]

ToDict ==
    /\ wire.stage = "message"
    /\ MessageFrame
    /\ wire' = [stage |-> "dict", a |-> wire.a, m |-> wire.m,
                d |-> to_dict(wire.m)]

FromDict ==
    /\ wire.stage = "dict"
    /\ MessageFrame
    /\ wire' = [stage |-> "back", a |-> wire.a, m |-> wire.m, d |-> wire.d,
                back |-> from_dict(wire.d, 2)]

MessageNext ==
    \/ Construct
    \/ ToDict
    \/ FromDict

MessageSpec == MessageInit /\ [][MessageNext]_vars

TypeOK ==
    /\ orch.system_state \in SystemStates
    /\ \A a \in Agents : status[a] \in {"idle", "running", "error"}

\* ----------------------------------------------------------------- claims
\* what the claims speak of

\* the orchestrator's handle_message has been called; last is the call
Called == last # NoCall

CompleteFrom(m, a) ==
    /\ m.message_type = "notification"
    /\ m.source_agent = a
    /\ Get(m.payload, "status") = "complete"
    /\ Truthy(Get(m.payload, "result_path"))

ErrorFrom(m, srcs) == m.message_type = "error" /\ m.source_agent \in srcs

RequestFor(m, actions) ==
    m.message_type = "request" /\ Get(m.payload, "action") \in actions

IsCrawlRequest(m) ==
    /\ m.destination_agent = "crawler"
    /\ m.message_type = "request"
    /\ Get(m.payload, "action") = "crawl"

\* the crawl requests sent so far, and those sent by the last call
CrawlRequests == Cardinality({m \in sent : IsCrawlRequest(m)})
CrawlRequestsOfCall ==
    Cardinality({i \in DOMAIN last.out : IsCrawlRequest(last.out[i])})

FailedCrawls ==
    {f \in finished : f.task.agent = "crawler" /\ f.outcome # "complete"}

\* C1: with a configured URL, max_iterations = N, every stage succeeding and
\* no request from outside, the system eventually is in state complete with
\* current_iteration = N after exactly N crawl requests, and stays there.
AllSucceed == available /\ \A f \in finished : f.outcome = "complete"

C1_Goal ==
    /\ orch.system_state = "complete"
    /\ orch.current_iteration = orch.max_iterations
    /\ CrawlRequests = orch.max_iterations

C1_Claim ==
    (Truthy(config) /\ [](ext = 0 /\ AllSucceed)) => <>[]C1_Goal

\* C2: a crawl that fails (success = false, sandbox unavailable, or an
\* exception) puts one error message of the crawler on the queue, and the
\* orchestrator's state is error once it has handled an error message of the
\* crawler, whatever its state was before.
C2_CrawlFailureIsError ==
    /\ Cardinality({m \in sent : ErrorFrom(m, {"crawler"})
                                  /\ m.destination_agent = "orchestrator"})
           \in {Cardinality(FailedCrawls), Cardinality(FailedCrawls) + 1}
    /\ (Called /\ ErrorFrom(last.msg, {"crawler"}))
           => orch.system_state = "error"

C2_Witness ==
    /\ Called
    /\ ErrorFrom(last.msg, {"crawler"})
    /\ last.msg.payload.error = "Crawling failed"
    /\ last.before.system_state = "crawling"
    /\ orch.system_state = "error"
    /\ FailedCrawls # {}

\* C3: handling an error message of the analysis, implementation or feedback
\* agent leaves the system state as it was.
C3_Claim ==
    (Called /\ ErrorFrom(last.msg, {"analysis", "implementation", "feedback"}))
        => orch.system_state = last.before.system_state

\* C4: the second of two set_url requests that carry the same URL changes
\* neither current_iteration nor the system state and sends no crawl request.
SameUrlAgain ==
    /\ Called
    /\ RequestFor(last.msg, {"set_url"})
    /\ Truthy(Get(last.msg.payload, "url"))
    /\ last.before.target_url = last.msg.payload.url
    /\ \E e \in BagToSet(handled) :
          /\ e.by = "orchestrator"
          /\ e.msg # last.msg
          /\ RequestFor(e.msg, {"set_url"})
          /\ Get(e.msg.payload, "url") = last.msg.payload.url

C4_Claim ==
    SameUrlAgain =>
        /\ orch.current_iteration = last.before.current_iteration
        /\ orch.system_state = last.before.system_state
        /\ CrawlRequestsOfCall = 0

\* C5: in state crawling, analyzing or implementing, handling the complete
\* notification (with a result path) of that state's stage agent moves the
\* orchestrator to the next state.
StageOf(state) ==
    CASE state = "crawling"     -> "crawler"
      [] state = "analyzing"    -> "analysis"
      [] state = "implementing" -> "implementation"
      [] state = "feedback"     -> "feedback"
      [] OTHER                  -> None

NextState(state) ==
    CASE state = "crawling"     -> "analyzing"
      [] state = "analyzing"    -> "implementing"
      [] state = "implementing" -> "feedback"
      [] OTHER                  -> state

C5_StageCompleteAdvances ==
    (/\ Called
     /\ last.before.system_state \in {"crawling", "analyzing", "implementing"}
     /\ CompleteFrom(last.msg, StageOf(last.before.system_state)))
        => /\ orch.system_state = NextState(last.before.system_state)
           /\ orch.current_iteration = last.before.current_iteration
           /\ CrawlRequestsOfCall = 0

C5_Witness ==
    /\ Called
    /\ last.before.system_state = "implementing"
    /\ CompleteFrom(last.msg, "implementation")
    /\ orch.system_state = "feedback"
    /\ \E e \in BagToSet(handled) :
          /\ e.by = "orchestrator" /\ CompleteFrom(e.msg, "crawler")
    /\ \E e \in BagToSet(handled) :
          /\ e.by = "orchestrator" /\ CompleteFrom(e.msg, "analysis")

\* C6: in state feedback, handling the feedback agent's complete notification
\* starts the next iteration (state crawling, current_iteration + 1, one
\* crawl request) when current_iteration < max_iterations, and otherwise
\* completes the run (state complete, current_iteration unchanged, no crawl
\* request).
FeedbackCompleteHandled ==
    /\ Called
    /\ last.before.system_state = "feedback"
    /\ CompleteFrom(last.msg, "feedback")

C6_FeedbackCompleteIterates ==
    FeedbackCompleteHandled =>
        IF last.before.current_iteration < last.before.max_iterations
        THEN /\ orch.system_state = "crawling"
             /\ orch.current_iteration = last.before.current_iteration + 1
             /\ CrawlRequestsOfCall = 1
             /\ Len(last.out) = 1
             /\ last.out[1].payload.iteration = orch.current_iteration
        ELSE /\ orch.system_state = "complete"
             /\ orch.current_iteration = last.before.current_iteration
             /\ last.out = <<>>

C6_Witness ==
    /\ FeedbackCompleteHandled
    /\ last.before.current_iteration < last.before.max_iterations
    /\ orch.system_state = "crawling"

C6_WitnessLast ==
    /\ FeedbackCompleteHandled
    /\ last.before.current_iteration = last.before.max_iterations
    /\ orch.system_state = "complete"

\* C7: once the state is complete or error, no notification and no error
\* message of a stage agent changes it; the state leaves complete or error
\* only by a start, set_url or stop request.
C7_Claim ==
    (/\ Called
     /\ last.before.system_state \in {"complete", "error"}
     /\ orch.system_state # last.before.system_state)
        => RequestFor(last.msg, {"start", "set_url", "stop"})

\* C8: a message is passed to handle_message only by the agent it is
\* addressed to, and at most once; every other agent puts it back unchanged;
\* the rotation of the queue loses, duplicates and alters no message.
C8_RotationConserves ==
    /\ \A i \in DOMAIN queue : queue[i] \in sent
    /\ \A i, j \in DOMAIN queue :
          queue[i].message_id = queue[j].message_id => i = j
    /\ \A m1, m2 \in sent : m1.message_id = m2.message_id => m1 = m2
    /\ \A e \in BagToSet(handled) :
          /\ e.by = e.msg.destination_agent
          /\ CopiesIn(e, handled) = 1
          /\ e.msg \in sent
    /\ \A m \in sent :
          (m \in SeqRange(queue)) # (\E e \in BagToSet(handled) : e.msg = m)

\* two messages of one sender are on the queue in the opposite order of
\* their sending: the queue has been rotated
C8_Witness ==
    /\ handled # EmptyBag
    /\ \E i, j \in DOMAIN queue :
          /\ i < j
          /\ queue[i].source_agent = queue[j].source_agent
          /\ queue[i].message_id[2] > queue[j].message_id[2]

\* C9: under fair scheduling of the five agent loops, every message on the
\* queue whose destination agent's run loop keeps running is eventually
\* handled.
MessageIds == Agents \X (1..MaxSeq)

Queued(id) == \E i \in DOMAIN queue : queue[i].message_id = id

DestinationRuns(id) ==
    \E i \in DOMAIN queue :
        queue[i].message_id = id /\ running[queue[i].destination_agent]

HandledId(id) == \E e \in BagToSet(handled) : e.msg.message_id = id

C9_Claim ==
    \A id \in MessageIds :
        (Queued(id) /\ DestinationRuns(id))
            ~> (HandledId(id) \/ (Queued(id) /\ ~DestinationRuns(id)))

\* C10: for a crawl result with 3 pages and no assets the analysis completes
\* successfully, the implementation lists exactly 3 files and the feedback
\* completes with a non-empty overall_assessment.
ThreePagesNoAssets(crawl_result) ==
    /\ crawl_result # NoFile
    /\ Len(crawl_result.pages) = 3
    /\ crawl_result.assets = <<>>

C10_Claim ==
    /\ \A f \in finished :
          (f.task.agent = "analysis" /\ ThreePagesNoAssets(f.task.input))
              => \/ f.outcome = "complete"
                 \/ f.error = "Error analyzing crawl result"
    /\ \A f \in finished :
          (f.task.agent = "implementation" /\ f.outcome = "complete")
              => Len(result_file["implementation"].files) = 3
    /\ \A f \in finished :
          (f.task.agent = "feedback" /\ f.outcome = "complete")
              => result_file["feedback"].overall_assessment # ""

\* C11: started with no configured URL, the first set_url request that
\* carries a URL moves the orchestrator from initializing to crawling with
\* current_iteration = 1 and sends the crawler a crawl request for that URL.
FirstSetUrl ==
    /\ Called
    /\ RequestFor(last.msg, {"set_url"})
    /\ Truthy(Get(last.msg.payload, "url"))
    /\ ~Truthy(last.before.target_url)
    /\ last.before.current_iteration = 0
    /\ \A e \in BagToSet(handled) :
          (e.by = "orchestrator" /\ RequestFor(e.msg, {"start", "set_url", "stop"}))
              => e.msg = last.msg

CrawlRequestFor(m, url, iteration) ==
    /\ m.source_agent = "orchestrator"
    /\ IsCrawlRequest(m)
    /\ m.payload.url = url
    /\ m.payload.iteration = iteration

C11_Claim ==
    FirstSetUrl =>
        /\ orch.system_state = "crawling"
        /\ orch.current_iteration = 1
        /\ Len(last.out) = 1
        /\ CrawlRequestFor(last.out[1], last.msg.payload.url, 1)

\* C12: a start request handled while no target URL is set is answered with
\* an error message to the requester, leaves the system state and
\* current_iteration unchanged and sends no crawl request; with a URL set it
\* starts an iteration.
StartHandled == Called /\ RequestFor(last.msg, {"start"})

C12_StartNeedsUrl ==
    StartHandled =>
        IF ~Truthy(last.before.target_url)
        THEN /\ last.ret.message_type = "error"
             /\ last.ret.source_agent = "orchestrator"
             /\ last.ret.destination_agent = last.msg.source_agent
             /\ orch = last.before
             /\ last.out = <<>>
        ELSE /\ orch.current_iteration = last.before.current_iteration + 1
             /\ last.ret.message_type = "response"
             /\ last.ret.destination_agent = last.msg.source_agent
             /\ last.ret.payload.iteration = orch.current_iteration
             /\ IF orch.current_iteration <= orch.max_iterations
                THEN /\ orch.system_state = "crawling"
                     /\ Len(last.out) = 1
                     /\ CrawlRequestFor(last.out[1], orch.target_url,
                                        orch.current_iteration)
                ELSE /\ orch.system_state = "complete"
                     /\ last.out = <<>>

C12_Witness ==
    /\ StartHandled
    /\ ~Truthy(last.before.target_url)
    /\ last.ret.payload.error = "No target URL set"
    /\ orch.system_state \in {"initializing", "error"}

C12_WitnessStarted ==
    /\ StartHandled
    /\ Truthy(last.before.target_url)
    /\ orch.system_state = "crawling"
    /\ orch.current_iteration = 2

\* C13: handling a stop request sets the orchestrator's state to complete
\* from any state, enqueues nothing but the 'stopped' reply to the requester,
\* and changes no agent's running flag, status or in-flight stage task.
StopStep ==
    /\ queue # <<>>
    /\ Head(queue).destination_agent = "orchestrator"
    /\ RequestFor(Head(queue), {"stop"})
    /\ handled' # handled

C13_StopForcesComplete ==
    [][StopStep =>
         /\ orch' = [orch EXCEPT !.system_state = "complete"]
         /\ Len(queue') = Len(queue)
         /\ \A i \in 1..(Len(queue) - 1) : queue'[i] = queue[i + 1]
         /\ queue'[Len(queue)].source_agent = "orchestrator"
         /\ queue'[Len(queue)].destination_agent = Head(queue).source_agent
         /\ queue'[Len(queue)].message_type = "response"
         /\ queue'[Len(queue)].payload = [status |-> "stopped"]
         /\ running' = running
         /\ status' = status
         /\ tasks' = tasks
         /\ pc' = pc
         /\ result_file' = result_file]_vars

C13_Witness ==
    /\ Called
    /\ RequestFor(last.msg, {"stop"})
    /\ last.before.system_state = "crawling"
    /\ orch.system_state = "complete"
    /\ tasks # {}
    /\ \A a \in Agents : running[a]

\* C14: in every reachable state, also after start and set_url requests that
\* arrive while a pipeline pass is in progress, each stage agent has at most
\* one artifact-producing task in flight.
InFlight(a) == {t \in tasks : t.agent = a}

C15_RoundTrip ==
    /\ wire.stage \in {"dict", "back"} =>
          /\ wire.d.source_agent \in Agents
          /\ wire.d.destination_agent \in Agents
          /\ wire.d.message_type \in MessageTypes
          /\ AgentType(wire.d.source_agent) = wire.m.source_agent
          /\ AgentType(wire.d.destination_agent) = wire.m.destination_agent
          /\ MessageType(wire.d.message_type) = wire.m.message_type
    /\ wire.stage = "back" =>
          /\ wire.back.message_id = wire.m.message_id
          /\ wire.back.source_agent = wire.m.source_agent
          /\ wire.back.destination_agent = wire.m.destination_agent
          /\ wire.back.message_type = wire.m.message_type
          /\ wire.back.timestamp = wire.m.timestamp
          /\ wire.back.priority = wire.m.priority
          /\ wire.back.payload = wire.m.payload
          /\ wire.back.metadata = wire.m.metadata

\* a message whose id and timestamp the constructor generated, with no
\* metadata given and priority 0, has made the round trip
C15_Witness ==
    /\ wire.stage = "back"
    /\ wire.a.message_id = ""
    /\ wire.a.timestamp = None
    /\ wire.a.metadata = NoMetadata
    /\ wire.a.priority = 0
    /\ wire.m.message_id = GeneratedId(1)
    /\ wire.back = wire.m

\* C16: every pass through an agent's run loop reaches a suspension point at
\* which the other agents can run: after a pass, also one that dequeued a
\* message addressed to another agent, the agent does not hold the thread.
PassOf(a) ==
    /\ parity' # parity
    /\ Head(ready) \in {Loop(a), Running(a)}

C16_Claim ==
    [][\A a \in Agents : PassOf(a) => Head(ready') # Running(a)]_vars

\* C17: when a stage task has failed (crawl, analysis, implementation or
\* evaluation raised), the stage's status is error and its run loop has
\* exited: the failed agent handles no message after the failure.
TaskRaised(a) ==
    \E f \in finished : f.task.agent = a /\ f.outcome = "raise"

HandlingBy(a) ==
    /\ queue # <<>>
    /\ Head(queue).destination_agent = a
    /\ handled' # handled

C17_Claim ==
    [][\A a \in StageAgents :
          TaskRaised(a) => (status[a] = "error" /\ ~HandlingBy(a))]_vars

\* C18: a stage task that fails sends exactly one error message to the
\* orchestrator and, for that task, neither a complete notification nor a
\* request to the next stage; it is not retried.
JustFinished == finished' \ finished

C18_FailureSendsOneError ==
    [][\A f \in JustFinished :
          f.outcome # "complete" =>
             /\ Len(queue') = Len(queue) + 1
             /\ \A i \in DOMAIN queue : queue'[i] = queue[i]
             /\ queue'[Len(queue')].source_agent = f.task.agent
             /\ queue'[Len(queue')].destination_agent = "orchestrator"
             /\ queue'[Len(queue')].message_type = "error"
             /\ sent' = sent \cup {queue'[Len(queue')]}
             /\ result_file' = result_file
             /\ tasks' \subseteq tasks
             /\ \A g \in finished :
                   ~(g.task.agent = f.task.agent /\ g.task.req = f.task.req)]_vars

C18_Witness ==
    /\ \E f \in finished :
          f.task.agent = "implementation" /\ f.outcome = "raise"
    /\ Cardinality({m \in sent : ErrorFrom(m, {"implementation"})}) = 1
    /\ \A m \in sent : ~CompleteFrom(m, "implementation")
    /\ \A m \in sent : m.destination_agent = "feedback"
                            => m.source_agent # "implementation"

\* C19: when handle_message or do_work raises inside an agent's run loop, the
\* agent's status is set to error and written to its status file together
\* with the exception message, and the loop exits: the agent handles no
\* further message and makes no further pass.
RaisedInLoop(a) == pc[a] = "loop" /\ pc'[a] = "except"

StageFailureHandled ==
    \E h \in BagToSet(handled) :
       /\ h.by = "orchestrator"
       /\ h.msg.message_type = "error"
       /\ h.msg.source_agent \in {"analysis", "implementation", "feedback"}
       /\ TaskRaised(h.msg.source_agent)

NextStage(a) ==
    CASE a = "crawler"        -> "analysis"
      [] a = "analysis"       -> "implementation"
      [] a = "implementation" -> "feedback"
      [] OTHER                -> None

C21_NotifyBeforeRequest ==
    [][/\ \A f \in JustFinished :
             f.outcome = "complete" =>
                LET a == f.task.agent
                    n == Len(queue)
                IN  /\ result_file'[a] # NoFile
                    /\ Len(queue') = n + (IF a = "feedback" THEN 1 ELSE 2)
                    /\ \A i \in DOMAIN queue : queue'[i] = queue[i]
                    /\ CompleteFrom(queue'[n + 1], a)
                    /\ queue'[n + 1].destination_agent = "orchestrator"
                    /\ queue'[n + 1].payload.result_path = ResultPath(a)
                    /\ a # "feedback" =>
                          /\ queue'[n + 2].source_agent = a
                          /\ queue'[n + 2].destination_agent = NextStage(a)
                          /\ queue'[n + 2].message_type = "request"
       /\ \A m \in sent' :
             (/\ m.message_type = "request"
              /\ m.source_agent \in StageAgents
              /\ m.destination_agent \in StageAgents) =>
                \E c \in sent' :
                   /\ CompleteFrom(c, m.source_agent)
                   /\ c.message_id[2] + 1 = m.message_id[2]]_vars

\* the implementation task has succeeded: artifact, notification and the
\* request to feedback are there
C21_Witness ==
    /\ \E f \in finished :
          f.task.agent = "implementation" /\ f.outcome = "complete"
    /\ result_file["implementation"] # NoFile
    /\ \E m \in sent : CompleteFrom(m, "implementation")
    /\ \E m \in sent : /\ m.source_agent = "implementation"
                        /\ m.destination_agent = "feedback"
                        /\ m.message_type = "request"

\* C22: every request the system itself creates (every request but the
\* external start, set_url and stop) goes from the orchestrator to the
\* crawler with action crawl, or from a stage to the next stage with that
\* stage's action; the feedback agent sends no request.
PipelineRequests ==
    { <<"orchestrator", "crawler", "crawl">>,
      <<"crawler", "analysis", "analyze">>,
      <<"analysis", "implementation", "implement">>,
      <<"implementation", "feedback", "evaluate">> }

C22_RequestsFollowPipeline ==
    [][ext' = ext =>
          \A m \in sent' \ sent :
             m.message_type = "request" =>
                /\ <<m.source_agent, m.destination_agent,
                      Get(m.payload, "action")>> \in PipelineRequests
                /\ m.source_agent # "feedback"]_vars

\* each of the four requests has been sent, and feedback has sent its
\* notification
C22_Witness ==
    /\ \A r \in PipelineRequests :
          \E m \in sent : /\ m.message_type = "request"
                          /\ <<m.source_agent, m.destination_agent,
                                Get(m.payload, "action")>> = r
    /\ \E m \in sent : CompleteFrom(m, "feedback")

\* C23: the crawler answers a crawl request whose URL can be resolved (the
\* URL of the payload, else the crawler's target) by creating exactly one
\* crawl task for that URL and returning, in the same pass, a response
\* {status: crawling, url} addressed to the requester; it answers a crawl
\* request without a resolvable URL with an error message and no task.
CrawlHandled ==
    /\ queue # <<>>
    /\ IsCrawlRequest(Head(queue))
    /\ handled' # handled

ResolvedUrl(m) ==
    IF Truthy(Get(m.payload, "url")) THEN Get(m.payload, "url") ELSE crawler_url

C23_CrawlRequestAnswered ==
    [][CrawlHandled =>
          LET m   == Head(queue)
              url == ResolvedUrl(m)
              ret == queue'[Len(queue')]
          IN  /\ Len(queue') = Len(queue)
              /\ \A i \in 1..(Len(queue) - 1) : queue'[i] = queue[i + 1]
              /\ ret.source_agent = "crawler"
              /\ ret.destination_agent = m.source_agent
              /\ IF Truthy(url)
                 THEN /\ tasks' \ tasks =
                            {[agent |-> "crawler", url |-> url,
                              req |-> m.message_id]}
                      /\ tasks \subseteq tasks'
                      /\ ret.message_type = "response"
                      /\ ret.payload = [status |-> "crawling", url |-> url]
                 ELSE /\ tasks' = tasks
                      /\ ret.message_type = "error"]_vars

\* the crawler has answered a request with a URL that is not its target, and
\* a request that has no URL while it has no target
C23_Witness ==
    /\ \E h \in BagToSet(handled), r \in sent :
          /\ h.by = "crawler" /\ IsCrawlRequest(h.msg)
          /\ h.msg.source_agent \in Requesters
          /\ config = "u1" /\ Get(h.msg.payload, "url") = "u2"
          /\ r.source_agent = "crawler" /\ r.message_type = "response"
          /\ r.payload.url = "u2"

C23_WitnessNoUrl ==
    /\ \E h \in BagToSet(handled), r \in sent :
          /\ h.by = "crawler" /\ IsCrawlRequest(h.msg)
          /\ ~Truthy(Get(h.msg.payload, "url"))
          /\ r.source_agent = "crawler" /\ r.message_type = "error"
          /\ r.destination_agent = h.msg.source_agent
          /\ r.payload.error = "No URL specified"

\* C24: after MultiAgentSystem.stop() has run, an agent whose running flag
\* is false makes no further pass of its loop and dequeues no message: its
\* next step is the exit of the loop; and every run() returns, so that
\* MultiAgentSystem.start() returns.
PassStep(a) ==
    /\ ready # <<>>
    /\ Head(ready) \in {Loop(a), Running(a)}
    /\ \/ parity' # parity
       \/ queue' # queue
       \/ handled' # handled

C24_StopEndsEveryLoop ==
    /\ [][\A a \in Agents : (~system_running /\ ~running[a]) => ~PassStep(a)]_vars
    /\ (~system_running ~> start_returned)

\* the system was stopped with messages on the queue and a stage task in
\* flight, and start() has returned
C24_Witness ==
    /\ ~system_running
    /\ start_returned
    /\ queue # <<>>
    /\ finished # {}

\* C25: current_iteration never decreases; a step changes it by 0 or by 1,
\* and by 1 exactly in the steps in which start_iteration ran: those that
\* send a crawl request numbered with the new value, and those that find the
\* budget exhausted and set the state to complete.  This includes the calls
\* made in state complete.
NewCrawlRequests == {m \in sent' \ sent : m.source_agent = "orchestrator"
                                          /\ IsCrawlRequest(m)}

C25_IterationCountsUp ==
    [][LET d == orch'.current_iteration - orch.current_iteration
       IN  /\ d \in {0, 1}
           /\ NewCrawlRequests # {} =>
                 /\ d = 1
                 /\ Cardinality(NewCrawlRequests) = 1
                 /\ \A m \in NewCrawlRequests :
                       m.payload.iteration = orch'.current_iteration
           /\ d = 1 =>
                 \/ /\ NewCrawlRequests # {}
                    /\ orch'.current_iteration <= orch'.max_iterations
                 \/ /\ NewCrawlRequests = {}
                    /\ orch'.current_iteration > orch'.max_iterations
                    /\ orch'.system_state = "complete"]_vars

\* start_iteration was called in state complete, with the budget used up:
\* the counter went one past max_iterations
C25_Witness ==
    /\ Called
    /\ last.before.system_state = "complete"
    /\ last.before.current_iteration = orch.max_iterations
    /\ orch.current_iteration = orch.max_iterations + 1

\* C26: when the implementation task has run the generated unit tests (the
\* sandbox is available), the result it writes has tests_passed true if the
\* test run succeeded and false if it failed.
C26_Claim ==
    [][\A f \in JustFinished :
          (/\ f.task.agent = "implementation"
           /\ f.outcome = "complete"
           /\ available) =>
              result_file'["implementation"].test_results.tests_passed =
                 (IF f.task.tested THEN "True" ELSE "False")]_vars

\* C27: whenever the orchestrator's state is crawling, analyzing,
\* implementing or feedback, current_iteration is at least 1 and at most
\* max_iterations.
ActiveStates == {"crawling", "analyzing", "implementing", "feedback"}

C27_IterationWithinBudget ==
    orch.system_state \in ActiveStates =>
       (1 <= orch.current_iteration /\ orch.current_iteration <= orch.max_iterations)

\* the pipeline is past crawling in the last iteration of a budget of more
\* than one, after a request was handled
C27_Witness ==
    /\ orch.system_state \in ActiveStates \ {"crawling"}
    /\ orch.max_iterations > 1
    /\ orch.current_iteration = orch.max_iterations
    /\ \E h \in BagToSet(handled) :
          h.by = "orchestrator" /\ h.msg.message_type = "request"

\* C28: a message returned by handle_message is addressed to the source of
\* the message handled; an agent that handles a response, or an error that a
\* handler returned, produces no message and no task: a chain of replies
\* ends after one reply.
HandlerErrors ==
    {"No URL specified", "No crawl result path specified",
     "Missing result paths", "No URL provided", "No target URL set"}

IsReply(m) ==
    \/ m.message_type = "response"
    \/ m.message_type = "error" /\ Get(m.payload, "error") \in HandlerErrors

HandleStep == queue # <<>> /\ handled' # handled

C28_RepliesEndChains ==
    [][HandleStep =>
          LET m == Head(queue)
              a == m.destination_agent
          IN  /\ a = "orchestrator" =>
                    (last'.ret # NoMessage =>
                        /\ last'.ret.destination_agent = m.source_agent
                        /\ last'.ret.source_agent = a
                        /\ queue'[Len(queue')].payload = last'.ret.payload
                        /\ queue'[Len(queue')].destination_agent = m.source_agent)
              /\ a # "orchestrator" =>
                    /\ Cardinality(sent' \ sent) <= 1
                    /\ \A r \in sent' \ sent :
                          /\ r.destination_agent = m.source_agent
                          /\ r.source_agent = a
                          /\ IsReply(r)
              /\ IsReply(m) =>
                    /\ sent' = sent
                    /\ Len(queue') = Len(queue) - 1
                    /\ tasks' = tasks]_vars

\* the orchestrator has handled the response of a stage, a stage has handled
\* the orchestrator's acknowledgement, and a requester has been handed the
\* error the orchestrator returned
C28_Witness ==
    /\ \E h \in BagToSet(handled) :
          h.by = "orchestrator" /\ h.msg.message_type = "response"
    /\ \E h \in BagToSet(handled) :
          /\ h.by \in StageAgents /\ h.msg.message_type = "response"
          /\ h.msg.source_agent = "orchestrator"
    /\ \E h \in BagToSet(handled) :
          /\ h.msg.message_type = "error" /\ h.msg.source_agent = "orchestrator"
          /\ h.msg.payload.error \in HandlerErrors

\* C29: when an agent's run() returns, after a stop or after an exception
\* in the loop, its running flag is false, its status is idle and the
\* status file it wrote last says idle, without the error that the except
\* branch had written.
RunReturned(a) == pc[a] # "done" /\ pc'[a] = "done"

C29_RunReturnsIdle ==
    [][\A a \in Agents :
          RunReturned(a) =>
             /\ ~running'[a]
             /\ status'[a] = "idle"
             /\ status_file'[a] = [status |-> "idle"]]_vars

\* one run() has returned after an exception with a message, another after
\* the stop
C29_Witness ==
    /\ \E a \in Agents : pc[a] = "done" /\ Truthy(exception[a])
    /\ \E a \in Agents : pc[a] = "done" /\ exception[a] = None
    /\ ~system_running

\* C30: once an agent has been stopped (its run() has started and its
\* running flag is false), its status stays idle and it puts no further
\* message on the queue, also when a stage task it created before the stop
\* runs afterwards.
Stopped(a) == pc[a] # "new" /\ ~running[a]

C30_Claim ==
    [][\A a \in Agents :
          Stopped(a) =>
             /\ status'[a] = "idle"
             /\ \A m \in sent' \ sent : m.source_agent # a]_vars

====
